---- MODULE Spec2Model ----
(***************************************************************************)
(* mkbubble: greedy packing of the bright pixels of an image with discs.   *)
(* The packing loop of main seeds each iteration at the maximum of the     *)
(* distance transform of the remaining mask (compute_edt), grows the       *)
(* largest valid circle there (find_biggest_circle, check_circle) and      *)
(* either rejects it, removing the seed, or accepts it, removing the       *)
(* pixels of its disc (pixels_in_circle).  The circle list is then printed *)
(* with the vertical axis flipped.                                         *)
(***************************************************************************)
EXTENDS Integers, Sequences, FiniteSets, TLC

VARIABLES
    width,           \* img.width()
    height,          \* img.height()
    targets_pixels,  \* the foreground set built from the image
    mask,            \* the remaining foreground set
    circles,         \* the accepted circles, in acceptance order
    output,          \* the line printed to standard output
    pc,              \* position of main: "loop", "output", "done", or "probe"
    iters,           \* history: iterations of the packing loop executed
    rejected,        \* history: seeds removed by the rejection branch
    last,            \* history: the last iteration (seed, grown circle, mask before)
    probe            \* inputs and results of a direct call of the disc geometry

vars == <<width, height, targets_pixels, mask, circles, output, pc,
          iters, rejected, last, probe>>

(***************************************************************************)
(* Program constants and bounds                                            *)
(***************************************************************************)
MAX_RADIUS == 25

\* Width and height of the rectangular images the packing runs start from.
Width == 11
Height == 4
\* At most this many dark pixels in a rectangular image.
MaxHoles == 0

\* Direct calls of the disc geometry: centers in 0..ProbeMax squared,
\* radii in 0..ProbeMax, sets inside (0..2*ProbeMax) squared.
ProbeMax == 2

(***************************************************************************)
(* Pixels and circles                                                      *)
(***************************************************************************)
Pixel(px, py) == [x |-> px, y |-> py]

Circle(cx, cy, cr) == [x |-> cx, y |-> cy, r |-> cr]

\* All coordinates of a w x h image.
Grid(w, h) == {Pixel(px, py) : px \in 0..(w - 1), py \in 0..(h - 1)}

(***************************************************************************)
(* Disc geometry                                                           *)
(***************************************************************************)
\* The k-th cell (k = 1, 2, ...) of the row-major scan of the bounding box
\* of side 2r+1: dy is the outer loop, dx the inner one.
ScanDy(k, r) == ((k - 1) \div (2 * r + 1)) - r
ScanDx(k, r) == ((k - 1) % (2 * r + 1)) - r

\* The cells (cx + dx, cy + dy) of the bounding box, in scan order.
Scan(cx, cy, r) ==
    [k \in 1..((2 * r + 1) * (2 * r + 1)) |->
        Pixel(cx + ScanDx(k, r), cy + ScanDy(k, r))]

pixels_in_circle_mut_noclip(cx, cy, r) ==
    LET Keep(p) == (p.x - cx) * (p.x - cx) + (p.y - cy) * (p.y - cy) <= r * r
    IN  SelectSeq(Scan(cx, cy, r), Keep)

\* pixels_in_circle: the pixels pushed, in push order: the cells with
\* dx * dx + dy * dy <= radius * radius, but for those with x < 0 or y < 0.
pixels_in_circle(cx, cy, r) ==
    LET Keep(p) ==
            /\ (p.x - cx) * (p.x - cx) + (p.y - cy) * (p.y - cy) <= r * r
            /\ ~(p.x < 0 \/ p.y < 0)
    IN  SelectSeq(Scan(cx, cy, r), Keep)

Range(s) == {s[i] : i \in DOMAIN s}

check_circle_mut_strict(valid_px, cx, cy, radius) ==
    \A dy \in (-radius)..radius : \A dx \in (-radius)..radius :
        (dx * dx + dy * dy < radius * radius)
            => \/ cx + dx < 0
               \/ cy + dy < 0
               \/ Pixel(cx + dx, cy + dy) \in valid_px

\* check_circle: false as soon as a scanned disc pixel with non-negative
\* coordinates is missing from valid_px, true when the scan ends.
check_circle(valid_px, cx, cy, radius) ==
    \A dy \in (-radius)..radius : \A dx \in (-radius)..radius :
        (dx * dx + dy * dy <= radius * radius)
            => \/ cx + dx < 0
               \/ cy + dy < 0
               \/ Pixel(cx + dx, cy + dy) \in valid_px

(***************************************************************************)
(* Circle grower                                                           *)
(***************************************************************************)
RECURSIVE grow(_, _, _, _, _, _)
\* The for loop of find_biggest_circle at radius r, circle.r = cur so far.
grow(valid_px, cx, cy, max_radius, r, cur) ==
    IF r > max_radius THEN cur
    ELSE IF ~check_circle(valid_px, cx, cy, r) THEN cur
    ELSE grow(valid_px, cx, cy, max_radius, r + 1, r)

RECURSIVE grow_mut_early(_, _, _, _, _, _)
grow_mut_early(valid_px, cx, cy, max_radius, r, cur) ==
    IF r > max_radius THEN cur
    ELSE IF ~check_circle(valid_px, cx, cy, r) THEN r
    ELSE grow_mut_early(valid_px, cx, cy, max_radius, r + 1, r)

find_biggest_circle_mut_early(valid_px, cx, cy, max_radius) ==
    Circle(cx, cy, grow_mut_early(valid_px, cx, cy, max_radius, 3, 1))

find_biggest_circle_mut_excl(valid_px, cx, cy, max_radius) ==
    Circle(cx, cy, grow(valid_px, cx, cy, max_radius - 1, 3, 1))

find_biggest_circle_mut_over(valid_px, cx, cy, max_radius) ==
    Circle(cx, cy, grow(valid_px, cx, cy, max_radius + 1, 3, 1))

\* find_biggest_circle: r starts at 1 and takes every radius of 3..=max_radius
\* in turn for which check_circle holds, up to the first one for which it fails.
find_biggest_circle(valid_px, cx, cy, max_radius) ==
    Circle(cx, cy, grow(valid_px, cx, cy, max_radius, 3, 1))

(***************************************************************************)
(* Seed selector                                                           *)
(***************************************************************************)
SqDist(p, q) == (p.x - q.x) * (p.x - q.x) + (p.y - q.y) * (p.y - q.y)

MinOf(S) == CHOOSE d \in S : \A e \in S : d <= e

MaxOf(S) == CHOOSE d \in S : \A e \in S : e <= d

\* p comes before q in the row-major scan of min_max_loc.
ScanBefore(p, q) == p.y < q.y \/ (p.y = q.y /\ p.x <= q.x)

compute_edt_mut_default(valid_px, w, h) == {Pixel(0, 0)}

\* distance_transform: every pixel of the image with its squared distance to
\* the nearest zero pixel, 0 for a zero pixel.
distance_transform(image, zeros) ==
    {<<IF p \in zeros THEN 0 ELSE MinOf({SqDist(p, z) : z \in zeros}), p>> :
        p \in image}

\* min_max_loc: the location of the maximum, the first one in scan order
\* (as a one-element set).
min_max_loc(dists) ==
    UNION {UNION {{CHOOSE p \in locs : \A q \in locs : ScanBefore(p, q)} :
                    locs \in {{d[2] : d \in {e \in dists : e[1] = max_val}}}} :
            max_val \in {MaxOf({d[1] : d \in dists})}}

\* compute_edt: the mask is painted into a height x width binary image
\* (pixels outside the image are skipped), the L2 distance transform gives
\* every pixel its distance to the nearest zero pixel, and the location of
\* the maximum is returned.  The squared distance is used: the square root
\* keeps the order.  The result is the set of locations the call can
\* return: the transform of an image without any zero pixel is not defined
\* by its contract, so every location of the image is possible there; an
\* empty image leaves max_loc at its default.
compute_edt(valid_px, w, h) ==
    UNION {UNION {IF image = {} THEN {Pixel(0, 0)}
                  ELSE IF zeros = {} THEN image
                  ELSE UNION {min_max_loc(dists) :
                                dists \in {distance_transform(image, zeros)}} :
                    zeros \in {image \ valid_px}} :
            image \in {Grid(w, h)}}

(***************************************************************************)
(* Output formatter                                                        *)
(***************************************************************************)
Digit(d) == <<"0", "1", "2", "3", "4", "5", "6", "7", "8", "9">>[d + 1]

RECURSIVE to_string(_)
\* Display of a u32: its decimal digits.  A value 2^32 - k left by a wrapped
\* subtraction is held as -k (2^32 = 4294967296 does not fit TLC's
\* integers); its digits are those of 4294960000 + (7296 - k), k <= 7296.
to_string(n) ==
    IF n < 0 THEN
        "429496" \o (IF 7296 + n < 1000 THEN "0" ELSE "")
                 \o (IF 7296 + n < 100 THEN "0" ELSE "")
                 \o (IF 7296 + n < 10 THEN "0" ELSE "")
                 \o to_string(7296 + n)
    ELSE IF n < 10 THEN Digit(n)
    ELSE to_string(n \div 10) \o Digit(n % 10)

\* Circle::fmt
fmt(c) == "[" \o to_string(c.x) \o "," \o to_string(c.y) \o "," \o to_string(c.r) \o "]"

RECURSIVE join(_, _)
\* join of a sequence of strings
join(strs, sep) ==
    IF Len(strs) = 0 THEN ""
    ELSE IF Len(strs) = 1 THEN strs[1]
    ELSE strs[1] \o sep \o join(Tail(strs), sep)

flip_mut_noflip(c, h) == Circle(c.x, c.y, c.r)

\* The y axis is flipped with a u32 subtraction, x and r are kept.  The
\* difference of two u32 is its own value when h >= y and wraps to
\* 2^32 - (y - h), held as -(y - h), otherwise.
flip(c, h) == Circle(c.x, h - c.y, c.r)

circle_line_mut_nocomma(cs, h) ==
    "[" \o join([i \in 1..Len(cs) |-> fmt(flip(cs[i], h))], ",") \o "]"

\* The printed line for a circle list and an image height.
circle_line(cs, h) ==
    "[" \o join([i \in 1..Len(cs) |-> fmt(flip(cs[i], h))], ",") \o "],"

(***************************************************************************)
(* Initial states                                                          *)
(***************************************************************************)
\* The foreground set of an image is the set of its pixels whose luminance
\* is above 0.5: any subset of its grid.  The runs start from rectangular
\* images with at most MaxHoles dark pixels, from one image whose
\* foreground is the quarter disc of radius MAX_RADIUS + 1 around (0, 0),
\* and from the all-bright and the all-dark 5 x 5 images.
RECURSIVE HolesUpTo(_, _)
\* The sets of at most n pixels of a grid.
HolesUpTo(grid, n) ==
    IF n = 0 THEN {{}}
    ELSE LET fewer == HolesUpTo(grid, n - 1)
         IN  fewer \cup {hs \cup {p} : hs \in fewer, p \in grid}

Holes(w, h) == HolesUpTo(Grid(w, h), MaxHoles)

RectImages ==
    {[w |-> Width, h |-> Height, fg |-> Grid(Width, Height) \ hs] :
        hs \in Holes(Width, Height)}

BigSide == MAX_RADIUS + 2

DiscImages ==
    {[w |-> BigSide, h |-> BigSide,
      fg |-> {p \in Grid(BigSide, BigSide) :
                p.x * p.x + p.y * p.y <= (MAX_RADIUS + 1) * (MAX_RADIUS + 1)}]}

\* The all-bright 5 x 5 image and the all-dark 5 x 5 image.
SceneImages ==
    {[w |-> 5, h |-> 5, fg |-> Grid(5, 5)], [w |-> 5, h |-> 5, fg |-> {}]}

Images == RectImages \cup DiscImages \cup SceneImages

NoLast == [kind |-> "none", seed |-> Pixel(0, 0), circle |-> Circle(0, 0, 0),
           pre |-> {}, ncircles |-> 0]

NoProbe == [set |-> {}, cx |-> 0, cy |-> 0, r |-> 0,
            pixels |-> <<>>, valid |-> FALSE, called |-> FALSE]

Init ==
    /\ \E img \in Images :
        /\ width = img.w
        /\ height = img.h
        /\ targets_pixels = img.fg
        /\ mask = img.fg
    /\ circles = <<>>
    /\ output = ""
    /\ pc = "loop"
    /\ iters = 0
    /\ rejected = {}
    /\ last = NoLast
    /\ probe = NoProbe

(***************************************************************************)
(* The packing loop of main                                                *)
(***************************************************************************)
\* mask.swap_remove(px) for every px of a list
remove_all(set, pixels) == set \ Range(pixels)

to_remove_mut_margin(circle) == pixels_in_circle(circle.x, circle.y, circle.r - 1)

\* to_rm: the pixels of the accepted circle, at its full radius.
to_remove(circle) == pixels_in_circle(circle.x, circle.y, circle.r)

Reject_mut_disc ==
    /\ pc = "loop"
    /\ Cardinality(mask) > 0
    /\ \E max_point \in compute_edt(mask, width, height) :
        LET circle == find_biggest_circle(mask, max_point.x, max_point.y, MAX_RADIUS)
        IN  /\ circle.r < 3
            /\ mask' = remove_all(mask, pixels_in_circle(max_point.x, max_point.y, 1))
            /\ circles' = circles
            /\ rejected' = rejected \cup {max_point}
            /\ last' = [kind |-> "reject", seed |-> max_point, circle |-> circle,
                        pre |-> mask, ncircles |-> Len(circles)]
    /\ iters' = iters + 1
    /\ UNCHANGED <<width, height, targets_pixels, output, pc, probe>>

\* One iteration whose grown circle has r < 3: the seed is removed.
Reject ==
    /\ pc = "loop"
    /\ Cardinality(mask) > 0
    /\ \E max_point \in compute_edt(mask, width, height) :
        LET circle == find_biggest_circle(mask, max_point.x, max_point.y, MAX_RADIUS)
        IN  /\ circle.r < 3
            /\ mask' = mask \ {Pixel(max_point.x, max_point.y)}
            /\ circles' = circles
            /\ rejected' = rejected \cup {max_point}
            /\ last' = [kind |-> "reject", seed |-> max_point, circle |-> circle,
                        pre |-> mask, ncircles |-> Len(circles)]
    /\ iters' = iters + 1
    /\ UNCHANGED <<width, height, targets_pixels, output, pc, probe>>

\* One iteration whose grown circle has r >= 3: the circle is pushed and the
\* pixels of its disc are removed.
Accept ==
    /\ pc = "loop"
    /\ Cardinality(mask) > 0
    /\ \E max_point \in compute_edt(mask, width, height) :
        LET circle == find_biggest_circle(mask, max_point.x, max_point.y, MAX_RADIUS)
            to_rm == to_remove(circle)
        IN  /\ ~(circle.r < 3)
            /\ circles' = Append(circles, circle)
            /\ mask' = remove_all(mask, to_rm)
            /\ last' = [kind |-> "accept", seed |-> max_point, circle |-> circle,
                        pre |-> mask, ncircles |-> Len(circles)]
    /\ iters' = iters + 1
    /\ UNCHANGED <<width, height, targets_pixels, output, pc, rejected, probe>>

LoopEnd_mut_any ==
    /\ pc = "loop"
    /\ pc' = "output"
    /\ UNCHANGED <<width, height, targets_pixels, mask, circles, output,
                   iters, rejected, last, probe>>

\* The loop condition mask.len() > 0 fails.
LoopEnd ==
    /\ pc = "loop"
    /\ ~(Cardinality(mask) > 0)
    /\ pc' = "output"
    /\ UNCHANGED <<width, height, targets_pixels, mask, circles, output,
                   iters, rejected, last, probe>>

\* The circles are formatted and printed.
PrintCircles ==
    /\ pc = "output"
    /\ output' = circle_line(circles, height)
    /\ pc' = "done"
    /\ UNCHANGED <<width, height, targets_pixels, mask, circles,
                   iters, rejected, last, probe>>

Next == Reject \/ Accept \/ LoopEnd \/ PrintCircles

Spec == Init /\ [][Next]_vars

(***************************************************************************)
(* Direct calls of the disc geometry                                       *)
(***************************************************************************)
\* The sets handed to check_circle: rectangles at the origin with at most
\* one pixel missing.
ProbeSets ==
    UNION {{Grid(a, b) \ hs : hs \in HolesUpTo(Grid(a, b), 1)} :
            a \in 0..(2 * ProbeMax + 1), b \in 0..(2 * ProbeMax + 1)}

ProbeInit ==
    /\ width = 0
    /\ height = 0
    /\ targets_pixels = {}
    /\ mask = {}
    /\ circles = <<>>
    /\ output = ""
    /\ pc = "probe"
    /\ iters = 0
    /\ rejected = {}
    /\ last = NoLast
    /\ \E set \in ProbeSets, cx \in 0..ProbeMax, cy \in 0..ProbeMax, r \in 0..ProbeMax :
        probe = [set |-> set, cx |-> cx, cy |-> cy, r |-> r,
                 pixels |-> <<>>, valid |-> FALSE, called |-> FALSE]

\* pixels_in_circle(cx, cy, r) and check_circle(set, cx, cy, r) are called.
CallGeometry ==
    /\ pc = "probe"
    /\ ~probe.called
    /\ probe' = [probe EXCEPT
                    !.pixels = pixels_in_circle(probe.cx, probe.cy, probe.r),
                    !.valid = check_circle(probe.set, probe.cx, probe.cy, probe.r),
                    !.called = TRUE]
    /\ UNCHANGED <<width, height, targets_pixels, mask, circles, output, pc,
                   iters, rejected, last>>

GeomNext == CallGeometry

GeomSpec == ProbeInit /\ [][GeomNext]_vars

(***************************************************************************)
(* Direct calls of the circle grower                                       *)
(***************************************************************************)
\* find_biggest_circle is handed a set, a seed that is a member of it and a
\* maximal radius of at least 1.
GrowInit ==
    /\ width = 0
    /\ height = 0
    /\ targets_pixels = {}
    /\ mask = {}
    /\ circles = <<>>
    /\ output = ""
    /\ pc = "grow"
    /\ iters = 0
    /\ rejected = {}
    /\ last = NoLast
    /\ \E set \in ProbeSets, cx \in 0..ProbeMax, cy \in 0..ProbeMax,
          max_radius \in 1..(ProbeMax + 3) :
        /\ Pixel(cx, cy) \in set
        /\ probe = [set |-> set, cx |-> cx, cy |-> cy, max_radius |-> max_radius,
                    circle |-> Circle(0, 0, 0), called |-> FALSE]

\* find_biggest_circle(set, cx, cy, max_radius) is called.
CallGrower ==
    /\ pc = "grow"
    /\ ~probe.called
    /\ probe' = [probe EXCEPT
                    !.circle = find_biggest_circle(probe.set, probe.cx, probe.cy,
                                                   probe.max_radius),
                    !.called = TRUE]
    /\ UNCHANGED <<width, height, targets_pixels, mask, circles, output, pc,
                   iters, rejected, last>>

GrowNext == CallGrower

GrowSpec == GrowInit /\ [][GrowNext]_vars

(***************************************************************************)
(* Properties                                                              *)
(***************************************************************************)
\* The disc of radius r around (cx, cy): the coordinates with non-negative
\* components within Euclidean distance r of the center.
DiscOf(cx, cy, r) ==
    {p \in Grid(cx + r + 1, cy + r + 1) :
        (p.x - cx) * (p.x - cx) + (p.y - cy) * (p.y - cy) <= r * r}

DiscOfCircle(c) == DiscOf(c.x, c.y, c.r)

\* C1: the packing loop terminates, and it executes at most as many
\* iterations as there are pixels in the initial foreground set: the
\* iterations executed and the pixels left never add up to more than the
\* initial foreground set, so every iteration uses up a pixel of it.
C1_LoopTerminates ==
    /\ iters + Cardinality(mask) <= Cardinality(targets_pixels)
    /\ iters <= Cardinality(targets_pixels)

C1_Witness ==
    /\ pc = "done"
    /\ iters > 1
    /\ Len(circles) > 0
    /\ rejected # {}

\* C2: every iteration, accepting or rejecting, replaces the mask by a
\* strict subset of itself; the mask never gains a pixel and stays inside
\* the initial foreground set.
C2_MaskShrinks ==
    [][/\ mask' \subseteq mask
       /\ mask' \subseteq targets_pixels'
       /\ (iters' # iters =>
            /\ mask' # mask
            /\ Cardinality(mask') < Cardinality(mask))]_vars

C2_Witness ==
    /\ last.kind = "accept"
    /\ rejected # {}
    /\ iters >= 3

\* C3: every pixel of the disc of an appended circle was in the mask as it
\* stood just before the circle's pixels were removed, so the disc holds
\* foreground pixels only.
C3_DiscInMask ==
    last.kind = "accept" =>
        /\ Len(circles) = last.ncircles + 1
        /\ circles[Len(circles)] = last.circle
        /\ DiscOfCircle(last.circle) \subseteq last.pre
        /\ DiscOfCircle(last.circle) \subseteq targets_pixels

C3_Witness ==
    /\ last.kind = "accept"
    /\ Cardinality(DiscOfCircle(last.circle)) > 1
    /\ last.pre # DiscOfCircle(last.circle)

\* C4: an accepted circle of radius r < MAX_RADIUS is maximal: check_circle
\* fails at radius r + 1 on the mask before the removal; only a circle of
\* radius MAX_RADIUS can have its radius r + 1 disc entirely in the mask.
C4_Maximal ==
    last.kind = "accept" =>
        /\ (last.circle.r < MAX_RADIUS =>
                ~check_circle(last.pre, last.circle.x, last.circle.y, last.circle.r + 1))
        /\ (DiscOf(last.circle.x, last.circle.y, last.circle.r + 1) \subseteq last.pre
                => last.circle.r = MAX_RADIUS)

C4_Witness ==
    /\ last.kind = "accept"
    /\ last.circle.r < MAX_RADIUS
    /\ Len(circles) = 2

\* The capped case of C4: the radius r + 1 disc is in the mask and r = MAX_RADIUS.
C4_CappedReached ==
    /\ last.kind = "accept"
    /\ last.circle.r = MAX_RADIUS
    /\ check_circle(last.pre, last.circle.x, last.circle.y, MAX_RADIUS + 1)

\* C5: any two distinct circles of the list have disjoint pixel sets.
C5_NonOverlapping ==
    \A i \in 1..Len(circles) : \A j \in 1..Len(circles) :
        i # j =>
            /\ circles[i] # circles[j]
            /\ Range(pixels_in_circle(circles[i].x, circles[i].y, circles[i].r))
                 \cap Range(pixels_in_circle(circles[j].x, circles[j].y, circles[j].r)) = {}

C5_Witness ==
    /\ Len(circles) >= 2
    /\ pc = "done"

\* The pixels covered by the circles accepted so far.
Covered == UNION {DiscOfCircle(circles[i]) : i \in 1..Len(circles)}

\* C6 as stated: at every point the mask is the initial foreground set minus
\* the discs of the circles accepted so far.
C6_MaskIsUncovered == mask = targets_pixels \ Covered

\* C6, amended: at every point the mask is the initial foreground set minus
\* the discs of the circles accepted so far and minus the seeds removed by
\* rejected iterations.
C6_MaskIsUncoveredUnrejected == mask = (targets_pixels \ Covered) \ rejected

C6_Witness ==
    /\ pc = "loop"
    /\ mask # {}
    /\ Len(circles) >= 1
    /\ rejected # {}

\* C7: every circle of the list has 3 <= r <= MAX_RADIUS; a grown circle
\* with r < 3 is not appended.
C7_RadiusRange ==
    /\ \A i \in 1..Len(circles) : circles[i].r >= 3 /\ circles[i].r <= MAX_RADIUS
    /\ (last.kind = "reject" => last.circle.r < 3 /\ Len(circles) = last.ncircles)
    /\ (last.kind = "accept" => last.circle.r >= 3)

C7_Witness ==
    /\ last.kind = "reject"
    /\ Len(circles) = 1
    /\ circles[1].r = MAX_RADIUS

\* C8: pixels_in_circle(cx, cy, r) returns exactly the coordinates with
\* non-negative components within distance r of (cx, cy), each once, and
\* exactly the center for r = 0.
C8_PixelsAreDisc ==
    probe.called =>
        /\ Range(probe.pixels) = DiscOf(probe.cx, probe.cy, probe.r)
        /\ \A i \in DOMAIN probe.pixels : \A j \in DOMAIN probe.pixels :
                probe.pixels[i] = probe.pixels[j] => i = j
        /\ \A i \in DOMAIN probe.pixels :
                probe.pixels[i].x >= 0 /\ probe.pixels[i].y >= 0
        /\ (probe.r = 0 => probe.pixels = <<Pixel(probe.cx, probe.cy)>>)

C8_Witness ==
    /\ probe.called
    /\ probe.r > probe.cx
    /\ probe.r > probe.cy
    /\ Len(probe.pixels) > 1

\* C9: check_circle(set, cx, cy, r) is true exactly when every coordinate
\* returned by pixels_in_circle(cx, cy, r) is in the set.
C9_CheckAgreesWithPixels ==
    probe.called =>
        (probe.valid <=> \A i \in DOMAIN probe.pixels : probe.pixels[i] \in probe.set)

C9_Witness ==
    /\ probe.called
    /\ probe.valid
    /\ probe.r >= 1
    /\ probe.r > probe.cx
    /\ Range(probe.pixels) # probe.set

\* The other case of C9: a call that answers false.
C9_InvalidReached ==
    /\ probe.called
    /\ ~probe.valid
    /\ probe.r >= 1
    /\ probe.set # {}

\* The decimal numeral of n < 1000.
Numeral(n) ==
    LET d(k) == CASE k = 0 -> "0" [] k = 1 -> "1" [] k = 2 -> "2" [] k = 3 -> "3"
                  [] k = 4 -> "4" [] k = 5 -> "5" [] k = 6 -> "6" [] k = 7 -> "7"
                  [] k = 8 -> "8" [] k = 9 -> "9"
    IN  IF n < 10 THEN d(n)
        ELSE IF n < 100 THEN d(n \div 10) \o d(n % 10)
        ELSE d(n \div 100) \o d((n \div 10) % 10) \o d(n % 10)

\* The triple [x,H - y,r] of the i-th circle.
Triple(i) ==
    "[" \o Numeral(circles[i].x) \o "," \o Numeral(height - circles[i].y)
        \o "," \o Numeral(circles[i].r) \o "]"

RECURSIVE Triples(_)
\* The triples of the first n circles, comma-joined.
Triples(n) ==
    IF n = 0 THEN ""
    ELSE IF n = 1 THEN Triple(1)
    ELSE Triples(n - 1) \o "," \o Triple(n)

\* C10: the printed line is [ then the comma-joined triples [x,H - y,r] in
\* acceptance order then ], where H - y lies in 1..H for every circle; the
\* circle (1, 2, 3) with H = 10 gives [[1,8,3]],
C10_OutputLine ==
    /\ pc = "done" =>
        /\ \A i \in 1..Len(circles) :
                height - circles[i].y >= 1 /\ height - circles[i].y <= height
        /\ output = "[" \o Triples(Len(circles)) \o "],"
    /\ circle_line(<<Circle(1, 2, 3)>>, 10) = "[[1,8,3]],"

C10_Witness ==
    /\ pc = "done"
    /\ Len(circles) = 2
    /\ circles[2].x >= 7
    /\ output # ""

\* The run started from the all-bright 5 x 5 image.
AllBright5 == width = 5 /\ height = 5 /\ targets_pixels = Grid(5, 5)

\* C11 as stated: for the all-bright 5 x 5 image the loop produces exactly
\* one circle, centered near (2, 2), and the foreground set is empty when
\* the loop ends.
C11_OneCircleNearCenter ==
    (AllBright5 /\ pc = "done") =>
        /\ Len(circles) = 1
        /\ circles[1].x \in 1..3
        /\ circles[1].y \in 1..3
        /\ mask = {}

\* C11, amended: for the all-bright 5 x 5 image the loop produces at most
\* one circle; its center has x <= 1 and y <= 1, where the disc is clipped
\* at the left and top edges, and its radius is 3 or 4, with the disc
\* inside the right and bottom edges; the foreground set is empty when the
\* loop ends.
C11_AtMostOneCornerCircle ==
    AllBright5 =>
        /\ Len(circles) <= 1
        /\ \A i \in 1..Len(circles) :
            /\ circles[i].x <= 1
            /\ circles[i].y <= 1
            /\ circles[i].r \in {3, 4}
            /\ circles[i].x + circles[i].r <= 4
            /\ circles[i].y + circles[i].r <= 4
        /\ (pc = "done" => mask = {})

C11_Witness ==
    /\ AllBright5
    /\ pc = "done"
    /\ Len(circles) = 1
    /\ circles[1].r = 4

\* A run from the all-bright 5 x 5 image that ends without any circle.
C11_NoCircleReached ==
    /\ AllBright5
    /\ pc = "done"
    /\ Len(circles) = 0

\* The run started from an all-dark image.
AllDark == targets_pixels = {} /\ pc # "probe"

\* C12 as stated: for an all-dark image the foreground set is empty from the
\* start, the seed selector returns none on the first call, no circle is
\* grown or accepted and the output is [],
C12_DarkSelectorReturnsNone ==
    (AllDark /\ pc = "done") =>
        /\ mask = {}
        /\ compute_edt(targets_pixels, width, height) = {}
        /\ circles = <<>>
        /\ output = "[],"

\* C12, amended: for an all-dark image the foreground set is empty from the
\* start, the loop condition fails before the seed selector is called at
\* all, no circle is grown or accepted and the output is [],
C12_DarkNoIteration ==
    AllDark =>
        /\ mask = {}
        /\ iters = 0
        /\ last = NoLast
        /\ rejected = {}
        /\ circles = <<>>
        /\ (pc = "done" => output = "[],")

C12_Witness ==
    /\ AllDark
    /\ pc = "done"
    /\ width = 5
    /\ output = "[],"

\* C14: an iteration whose grown circle has r < 3 removes the seed from the
\* mask and no other pixel, and leaves the circle list unchanged.
C14_RejectRemovesSeedOnly ==
    [][(iters' # iters /\ last'.circle.r < 3) =>
            /\ last'.kind = "reject"
            /\ last'.seed \in mask
            /\ mask' = mask \ {last'.seed}
            /\ Cardinality(mask') = Cardinality(mask) - 1
            /\ circles' = circles]_vars

\* A rejection whose seed had a neighbour in the mask, which stays.
C14_Witness ==
    /\ last.kind = "reject"
    /\ Len(circles) >= 1
    /\ \E p \in mask :
        /\ (p.x - last.seed.x) * (p.x - last.seed.x) <= 1
        /\ (p.y - last.seed.y) * (p.y - last.seed.y) <= 1

\* C15: an iteration whose grown circle has r >= 3 appends that circle to
\* the end of the list, the earlier entries unchanged, and removes from the
\* mask exactly the pixels of pixels_in_circle(x, y, r) at the full radius:
\* no pixel of the disc stays and every mask pixel outside the disc stays.
C15_AcceptAppendsAndRemovesDisc ==
    [][(iters' # iters /\ last'.circle.r >= 3) =>
            LET c == last'.circle
            IN  /\ last'.kind = "accept"
                /\ Len(circles') = Len(circles) + 1
                /\ circles'[Len(circles')] = c
                /\ SubSeq(circles', 1, Len(circles)) = circles
                /\ \A disc \in {Range(pixels_in_circle(c.x, c.y, c.r))} :
                    /\ mask' \cap disc = {}
                    /\ mask \ disc \subseteq mask'
                /\ mask' \subseteq mask]_vars

\* An acceptance that extends a non-empty list and leaves pixels behind.
C15_Witness ==
    /\ last.kind = "accept"
    /\ Len(circles) >= 2
    /\ last.ncircles = Len(circles) - 1
    /\ mask # {}

\* The radii of lo..hi whose whole disc around the probed seed is in the set.
ValidRadii(lo, hi) ==
    {rho \in lo..hi : DiscOf(probe.cx, probe.cy, rho) \subseteq probe.set}

\* C16 as stated: for a seed that is a member of the set and max_radius >= 1,
\* find_biggest_circle returns the circle centered at the seed whose radius
\* is the largest radius of 1..max_radius with its entire disc in the set.
C16_LargestValidRadius ==
    (pc = "grow" /\ probe.called) =>
        /\ probe.circle.x = probe.cx
        /\ probe.circle.y = probe.cy
        /\ probe.circle.r \in ValidRadii(1, probe.max_radius)
        /\ \A rho \in ValidRadii(1, probe.max_radius) : rho <= probe.circle.r

\* C16, amended: for a seed that is a member of the set and max_radius >= 1,
\* find_biggest_circle returns the circle centered at the seed whose radius
\* is the largest radius of 3..max_radius with its entire disc in the set,
\* and radius 1 when there is no such radius; radii 1 and 2 are not tested
\* and radius 2 is never returned.
C16_LargestTestedRadius ==
    (pc = "grow" /\ probe.called) =>
        /\ probe.circle.x = probe.cx
        /\ probe.circle.y = probe.cy
        /\ probe.circle.r # 2
        /\ \A valid \in {ValidRadii(3, probe.max_radius)} :
            IF valid = {}
            THEN probe.circle.r = 1
            ELSE /\ probe.circle.r \in valid
                 /\ \A rho \in valid : rho <= probe.circle.r

\* Growth stopped by a failure at radius 4, below the maximal radius, with
\* the disc clipped at the left edge.
C16_Witness ==
    /\ pc = "grow"
    /\ probe.called
    /\ probe.circle.r = 3
    /\ probe.max_radius > 4
    /\ probe.cx < 3

\* Growth stopped by the maximal radius.
C16_CappedReached ==
    /\ pc = "grow"
    /\ probe.called
    /\ probe.circle.r = probe.max_radius
    /\ probe.max_radius >= 3
    /\ DiscOf(probe.cx, probe.cy, probe.max_radius + 1) \subseteq probe.set

\* Radius 1 returned although the radius 2 disc is in the set.
C16_FreeRadiusReached ==
    /\ pc = "grow"
    /\ probe.called
    /\ probe.circle.r = 1
    /\ DiscOf(probe.cx, probe.cy, 2) \subseteq probe.set

\* Radius 1 returned although not even the radius 1 disc is in the set.
C16_NoValidRadiusReached ==
    /\ pc = "grow"
    /\ probe.called
    /\ probe.circle.r = 1
    /\ ~(DiscOf(probe.cx, probe.cy, 1) \subseteq probe.set)

\* C17: every accepted circle has x + r <= width - 1 and y + r <= height - 1:
\* a disc that crosses the right or the bottom edge is not accepted at that
\* radius.  Coordinates with a negative component are not tested, so a circle
\* may have x - r < 0 or y - r < 0.
C17_InsideRightAndBottom ==
    \A i \in 1..Len(circles) :
        /\ circles[i].x + circles[i].r <= width - 1
        /\ circles[i].y + circles[i].r <= height - 1

\* An accepted circle that extends past the left and the top edge and
\* touches the bottom edge.
C17_Witness ==
    \E i \in 1..Len(circles) :
        /\ circles[i].x - circles[i].r < 0
        /\ circles[i].y - circles[i].r < 0
        /\ circles[i].y + circles[i].r = height - 1

\* An accepted circle that touches the right edge.
C17_RightEdgeReached ==
    \E i \in 1..Len(circles) :
        /\ circles[i].x + circles[i].r = width - 1
        /\ circles[i].x - circles[i].r >= 0

\* C18: in every iteration the seed returned by compute_edt for the mask is
\* a member of that mask, so a rejection removes a pixel that was there; the
\* mask the iteration works on is the one the selector was given, and what
\* is missing afterwards is the seed or lies in the disc of the grown circle.
C18_SeedInMask ==
    last.kind # "none" =>
        /\ last.pre # {}
        /\ last.seed \in last.pre
        /\ last.circle.x = last.seed.x
        /\ last.circle.y = last.seed.y
        /\ mask \subseteq last.pre
        /\ last.kind = "reject" =>
            /\ mask = last.pre \ {last.seed}
            /\ Cardinality(mask) = Cardinality(last.pre) - 1

\* A rejected seed away from the origin, after earlier iterations.
C18_Witness ==
    /\ last.kind = "reject"
    /\ last.seed.x > 0
    /\ last.seed.y > 0
    /\ iters >= 2

\* An accepted seed away from the origin.
C18_AcceptedSeedReached ==
    /\ last.kind = "accept"
    /\ last.seed.x > 0
    /\ last.seed # Pixel(last.seed.x, 0)
    /\ last.seed \notin mask

\* C19: when the loop has ended the mask is empty, and every pixel of the
\* initial foreground set lies in the disc of an accepted circle or was
\* removed as the seed of a rejected circle; while pixels remain the seed
\* selector has a seed to give, so the loop does not end through the
\* no-seed branch.
C19_EndedMeansAllAccounted ==
    /\ pc \in {"output", "done"} =>
        /\ mask = {}
        /\ targets_pixels \subseteq Covered \cup rejected
    /\ (pc = "loop" /\ mask # {}) => compute_edt(mask, width, height) # {}

\* A loop that has ended after accepting and rejecting, some pixel being
\* accounted for by a rejection only.
C19_Witness ==
    /\ pc = "output"
    /\ Len(circles) >= 1
    /\ rejected \ Covered # {}
    /\ targets_pixels # {}

====
